---- MODULE Spec2Model ----
(***************************************************************************)
(* Model of scripts/analyze_results.py: the results-analysis pipeline of   *)
(* the genetic-algorithm comparison.  main() loads benchmark_results.csv,  *)
(* cleans it, computes per-language statistics, ranks the languages,       *)
(* renders the chart, builds the text report and persists three artifacts. *)
(*                                                                         *)
(* Floating-point values are modelled as fixed-point numbers with Unit     *)
(* steps per millisecond, extended with the IEEE special values NaN and    *)
(* +Inf that numpy produces on 0/0 and x/0.                                *)
(***************************************************************************)
EXTENDS Integers, Sequences, FiniteSets, TLC

\* ------------------------------------------------------------------ bounds
\* Rows (languages) in the input file, at most.
NumLangs == 2
\* Sample columns run1..runN of the file (25 in the benchmark).
NumRuns == 2
\* Fixed-point resolution: steps per millisecond.
Unit == 1000

\* ------------------------------------------------------------ float values
Fin(x) == [k |-> "fin", v |-> x]
NaN == [k |-> "nan", v |-> 0]
Inf == [k |-> "inf", v |-> 0]

IsFin(a) == a.k = "fin"
IsNaN(a) == a.k = "nan"
IsInf(a) == a.k = "inf"

\* IEEE comparisons: every comparison with NaN is false.
FEq(a, b) ==
    \/ IsFin(a) /\ IsFin(b) /\ a.v = b.v
    \/ IsInf(a) /\ IsInf(b)
FLt(a, b) ==
    \/ IsFin(a) /\ IsFin(b) /\ a.v < b.v
    \/ IsFin(a) /\ IsInf(b)
FLe(a, b) == FLt(a, b) \/ FEq(a, b)

FAdd(a, b) ==
    IF IsNaN(a) \/ IsNaN(b) THEN NaN
    ELSE IF IsInf(a) \/ IsInf(b) THEN Inf
    ELSE Fin(a.v + b.v)
FSub(a, b) ==
    IF IsNaN(a) \/ IsNaN(b) THEN NaN
    ELSE IF IsInf(b) THEN NaN
    ELSE IF IsInf(a) THEN Inf
    ELSE Fin(a.v - b.v)
FMul(a, b) ==
    IF IsNaN(a) \/ IsNaN(b) THEN NaN
    ELSE IF IsInf(a) \/ IsInf(b)
         THEN IF (IsFin(a) /\ a.v = 0) \/ (IsFin(b) /\ b.v = 0) THEN NaN ELSE Inf
    ELSE Fin((a.v * b.v) \div Unit)
\* numpy float division: 0/0 is NaN and x/0 is inf (a RuntimeWarning, no
\* exception); operands here are never negative when the divisor is 0.
FDiv(a, b) ==
    IF IsNaN(a) \/ IsNaN(b) THEN NaN
    ELSE IF IsInf(b) THEN (IF IsInf(a) THEN NaN ELSE Fin(0))
    ELSE IF b.v = 0 THEN (IF IsFin(a) /\ a.v = 0 THEN NaN ELSE Inf)
    ELSE IF IsInf(a) THEN Inf
    ELSE Fin((a.v * Unit) \div b.v)

RECURSIVE SqrtSearch(_, _, _)
SqrtSearch(x, lo, hi) ==
    IF lo >= hi THEN lo
    ELSE LET mid == (lo + hi + 1) \div 2
         IN  IF mid * mid <= x THEN SqrtSearch(x, mid, hi)
             ELSE SqrtSearch(x, lo, mid - 1)
\* Largest r with r*r <= x (x below 2^31).
ISqrt(x) == SqrtSearch(x, 0, IF x < 46340 THEN x ELSE 46340)
FSqrt(a) ==
    IF IsNaN(a) THEN NaN
    ELSE IF IsInf(a) THEN Inf
    ELSE IF a.v < 0 THEN NaN
    ELSE Fin(ISqrt(a.v * Unit))

\* An integer count as a float.
FInt(n) == Fin(n * Unit)

\* ------------------------------------------------------------- input file
\* Languages of the benchmark rows; row i of the file is language i.
LanguageNames == <<"python", "java", "fsharp", "typescript">>
\* The texts of numeric cells: NumericText[i + 1] is the sample of i ms.
NumericText == <<"0", "1">>
\* A cell holds a numeric text or the error token.
CellTexts == {"ERROR"} \cup {NumericText[i] : i \in 1..Len(NumericText)}
RunColumns == 1..NumRuns
\* The file whose row i holds language i and the cells cells[i].
CsvFile(cells) ==
    [i \in DOMAIN cells |-> [language |-> LanguageNames[i], runs |-> cells[i]]]

\* --------------------------------------------------- load_and_clean_data
\* (mutant) a failed parse filled with 0 instead of NaN.
ToNumericZeroFill(cell) ==
    IF \E i \in 1..Len(NumericText) : NumericText[i] = cell
    THEN Fin(((CHOOSE i \in 1..Len(NumericText) : NumericText[i] = cell) - 1) * Unit)
    ELSE Fin(0)
\* pd.to_numeric(errors='coerce') on one cell: the number, or NaN for a
\* text that does not parse.
ToNumeric(cell) ==
    IF \E i \in 1..Len(NumericText) : NumericText[i] = cell
    THEN Fin(((CHOOSE i \in 1..Len(NumericText) : NumericText[i] = cell) - 1) * Unit)
    ELSE NaN

\* Lines 45-46: every run column converted.
ConvertRuns(rows) ==
    [i \in 1..Len(rows) |->
        [language |-> rows[i].language,
         runs |-> [c \in RunColumns |-> ToNumeric(rows[i].runs[c])]]]

\* (mutant) dropna(how='any'): a row with any NaN cell is dropped.
KeepRowAny(row) == \A c \in RunColumns : ~IsNaN(row.runs[c])
\* dropna(subset=run_columns, how='all') keeps a row unless all its run
\* cells are NaN.
KeepRow(row) == \E c \in RunColumns : ~IsNaN(row.runs[c])
DropAllMissing(rows) == SelectSeq(rows, KeepRow)

\* Series.dropna(): the non-NaN cells, in order.
DropNa(runs) == SelectSeq(runs, LAMBDA x : ~IsNaN(x))

\* --------------------------------------------------- calculate_statistics
RECURSIVE NpSum(_)
NpSum(times) ==
    IF Len(times) = 0 THEN Fin(0) ELSE FAdd(times[1], NpSum(Tail(times)))

NpMean(times) == FDiv(NpSum(times), FInt(Len(times)))

\* np.std(times, ddof): sqrt(sum((x - mean)^2) / max(n - ddof, 0)); with
\* n = ddof the division is 0/0 and the result NaN.
NpStd(times, ddof) ==
    LET mean == NpMean(times)
        sq == [i \in 1..Len(times) |->
                 FMul(FSub(times[i], mean), FSub(times[i], mean))]
        rcount == IF Len(times) - ddof > 0 THEN Len(times) - ddof ELSE 0
    IN  FSqrt(FDiv(NpSum(sq), FInt(rcount)))

RECURSIVE NpMin(_)
NpMin(times) ==
    IF Len(times) = 1 THEN times[1]
    ELSE LET m == NpMin(Tail(times))
         IN  IF FLt(times[1], m) THEN times[1] ELSE m
RECURSIVE NpMax(_)
NpMax(times) ==
    IF Len(times) = 1 THEN times[1]
    ELSE LET m == NpMax(Tail(times))
         IN  IF FLt(m, times[1]) THEN times[1] ELSE m

\* The k-th smallest element (1-based).
KthSmallest(times, k) ==
    CHOOSE x \in {times[i] : i \in 1..Len(times)} :
        /\ Cardinality({i \in 1..Len(times) : FLt(times[i], x)}) < k
        /\ Cardinality({i \in 1..Len(times) : FLe(times[i], x)}) >= k
NpMedian(times) ==
    LET n == Len(times)
    IN  IF n % 2 = 1 THEN KthSmallest(times, (n + 1) \div 2)
        ELSE FDiv(FAdd(KthSmallest(times, n \div 2),
                       KthSmallest(times, n \div 2 + 1)), FInt(2))

\* scipy.stats.sem: np.std(a, ddof=1) / sqrt(n).
StatsSem(times) == FDiv(NpStd(times, 1), FSqrt(FInt(Len(times))))

\* Student-t 0.975 quantiles for 1..24 degrees of freedom, in thousandths.
TQuantile == <<12706, 4303, 3182, 2776, 2571, 2447, 2365, 2306, 2262, 2228,
               2201, 2179, 2160, 2145, 2131, 2120, 2110, 2101, 2093, 2086,
               2080, 2074, 2069, 2064>>
TPpf(df) == Fin((TQuantile[df] * Unit) \div 1000)

\* (mutant) the interval collapsed onto loc.
TIntervalCollapsed(df, loc, scale) ==
    IF IsFin(scale) /\ scale.v > 0 /\ df > 0 /\ ~IsNaN(loc)
    THEN <<loc, loc>>
    ELSE <<NaN, NaN>>
\* scipy.stats.t.interval(0.95, df, loc, scale): loc -/+ t * scale; the
\* distribution's ppf answers NaN unless scale > 0.
TInterval(df, loc, scale) ==
    IF IsFin(scale) /\ scale.v > 0 /\ df > 0 /\ ~IsNaN(loc)
    THEN <<FSub(loc, FMul(TPpf(df), scale)), FAdd(loc, FMul(TPpf(df), scale))>>
    ELSE <<NaN, NaN>>

\* Lines 68-89: the stats_dict of one language.
StatsDict(language, times) ==
    LET mean == NpMean(times)
        ci == IF Len(times) > 1
              THEN TInterval(Len(times) - 1, mean, StatsSem(times))
              ELSE <<mean, mean>>
    IN  [Language |-> language,
         Mean |-> mean,
         StdDev |-> NpStd(times, 1),
         Median |-> NpMedian(times),
         Min |-> NpMin(times),
         Max |-> NpMax(times),
         ValidRuns |-> Len(times),
         CV |-> FMul(FDiv(NpStd(times, 1), mean), FInt(100)),
         CILower |-> ci[1],
         CIUpper |-> ci[2],
         CIWidth |-> IF Len(times) > 1 THEN FSub(ci[2], ci[1]) ELSE Fin(0)]

\* Lines 61-66: the rows whose cleaned sample sequence is non-empty.
RECURSIVE CalculateStatistics(_)
CalculateStatistics(df) ==
    IF Len(df) = 0 THEN <<>>
    ELSE LET times == DropNa(df[1].runs)
             rest == CalculateStatistics(Tail(df))
         IN  IF Len(times) = 0 THEN rest
             ELSE <<StatsDict(df[1].language, times)>> \o rest

\* ------------------------------------------------ create_ranking_analysis
\* The injective index sequences of length n.
IndexOrders(n) ==
    {p \in [1..n -> 1..n] : \A i, j \in 1..n : i # j => p[i] # p[j]}

\* stats_df.sort_values('Mean (ms)'): pandas sorts with kind='quicksort',
\* which numpy does not make stable, so rows of equal mean come out in any
\* order; every result is ascending by mean.
SortValues(stats) ==
    {p \in IndexOrders(Len(stats)) :
        \A i, j \in 1..Len(stats) :
            i < j => FLe(stats[p[i]].Mean, stats[p[j]].Mean)}

\* (mutant) Series.rank(method='min'): rows of equal mean share a rank.
RankMin(sorted, i) ==
    1 + Cardinality({j \in 1..Len(sorted) : FLt(sorted[j].Mean, sorted[i].Mean)})
\* Line 163: range(1, len(ranking_df) + 1), at row i of the sorted frame.
RankAt(sorted, i) == i

\* f"{x:.2f}x": the factor in hundredths, or the text of a special value.
SpeedFactor(x) ==
    IF IsFin(x) THEN [k |-> "fin", v |-> (x.v * 100 + Unit \div 2) \div Unit]
    ELSE [k |-> x.k, v |-> 0]

\* Lines 165-167: mean / fastest mean, the fastest being row 0 after the sort.
RelativeSpeed(sorted, i) == FDiv(sorted[i].Mean, sorted[1].Mean)

\* Lines 162-170 for one sort result p.
CreateRankingAnalysis(stats, p) ==
    LET sorted == [i \in 1..Len(stats) |-> stats[p[i]]]
    IN  [i \in 1..Len(stats) |->
            [Language |-> sorted[i].Language,
             Mean |-> sorted[i].Mean,
             StdDev |-> sorted[i].StdDev,
             Median |-> sorted[i].Median,
             Min |-> sorted[i].Min,
             Max |-> sorted[i].Max,
             ValidRuns |-> sorted[i].ValidRuns,
             CV |-> sorted[i].CV,
             CILower |-> sorted[i].CILower,
             CIUpper |-> sorted[i].CIUpper,
             CIWidth |-> sorted[i].CIWidth,
             Rank |-> RankAt(sorted, i),
             RelativeSpeed |-> RelativeSpeed(sorted, i),
             SpeedFactor |-> SpeedFactor(RelativeSpeed(sorted, i))]]

\* ------------------------------------------------ generate_summary_report
\* Line 192: the completeness marker of a ranking row.
StatusMarker(valid_runs) ==
    IF valid_runs = NumRuns
    THEN [mark |-> "check", valid |-> 0, target |-> 0]
    ELSE [mark |-> "warning", valid |-> valid_runs, target |-> NumRuns]

\* Lines 190-195: one line of the ranking table.
RankingLine(row) ==
    [Rank |-> row.Rank,
     Language |-> row.Language,
     Mean |-> row.Mean,
     SpeedFactor |-> row.SpeedFactor,
     status |-> StatusMarker(row.ValidRuns)]

\* Series.idxmin() / idxmax() skip NaN and answer the first extreme row;
\* with every value NaN there is no row, and .loc[] on the answer raises.
HasExtreme(stats) == \E i \in 1..Len(stats) : ~IsNaN(stats[i].CV)
IdxMin(stats) ==
    CHOOSE i \in 1..Len(stats) :
        /\ ~IsNaN(stats[i].CV)
        /\ \A j \in 1..Len(stats) :
              ~IsNaN(stats[j].CV) =>
                  /\ FLe(stats[i].CV, stats[j].CV)
                  /\ (j < i => FLt(stats[i].CV, stats[j].CV))
IdxMax(stats) ==
    CHOOSE i \in 1..Len(stats) :
        /\ ~IsNaN(stats[i].CV)
        /\ \A j \in 1..Len(stats) :
              ~IsNaN(stats[j].CV) =>
                  /\ FLe(stats[j].CV, stats[i].CV)
                  /\ (j < i => FLt(stats[j].CV, stats[i].CV))

\* Lines 228-239: the paradigm categories and the mean of each one present.
Categories ==
    <<[name |-> "Compiled Systems", langs |-> {"swift", "java", "csharp"}],
      [name |-> "Functional", langs |-> {"fsharp", "clojure"}],
      [name |-> "Scientific/Dynamic", langs |-> {"julia", "python"}],
      [name |-> "Web/Scripting", langs |-> {"typescript"}]>>
CategoryLines(ranking) ==
    LET avg(c) ==
            LET rows == SelectSeq(ranking, LAMBDA r : r.Language \in Categories[c].langs)
            IN  [name |-> Categories[c].name,
                 n |-> Len(rows),
                 avg_time |-> IF Len(rows) = 0 THEN NaN
                              ELSE NpMean([i \in 1..Len(rows) |-> rows[i].Mean])]
    IN  SelectSeq([c \in 1..Len(Categories) |-> avg(c)], LAMBDA l : l.n > 0)

\* Lines 246-253: the detail block of one language.
DetailBlock(row) ==
    [Language |-> row.Language,
     Mean |-> row.Mean,
     Std |-> row.StdDev,
     CI |-> <<row.CILower, row.CIUpper>>,
     Range |-> <<row.Min, row.Max>>,
     Runs |-> <<row.ValidRuns, NumRuns>>]

\* Lines 174-255, when both consistency extremes exist.
GenerateSummaryReport(stats, ranking) ==
    [languages_tested |-> Len(stats),
     runs_per_language |-> NumRuns,
     ranking |-> [i \in 1..Len(ranking) |-> RankingLine(ranking[i])],
     fastest |-> ranking[1].Language,
     slowest |-> ranking[Len(ranking)].Language,
     speedup |-> FDiv(ranking[Len(ranking)].Mean, ranking[1].Mean),
     most_consistent |-> stats[IdxMin(stats)].Language,
     least_consistent |-> stats[IdxMax(stats)].Language,
     categories |-> CategoryLines(ranking),
     details |-> [i \in 1..Len(ranking) |-> DetailBlock(ranking[i])]]

\* ------------------------------------------------ create_performance_plot
\* Lines 98-105: one point per valid sample.
RECURSIVE PlotData(_)
PlotData(df) ==
    IF Len(df) = 0 THEN <<>>
    ELSE LET times == DropNa(df[1].runs)
         IN  [i \in 1..Len(times) |-> [Language |-> df[1].language, Time |-> times[i]]]
             \o PlotData(Tail(df))
\* Lines 125-130: a bar per language, mean with half the CI width as error.
PlotBars(stats) ==
    [i \in 1..Len(stats) |->
        [Language |-> stats[i].Language,
         Mean |-> stats[i].Mean,
         Err |-> FDiv(stats[i].CIWidth, FInt(2))]]

\* ------------------------------------------------------------------ state
VARIABLES
    csv_exists,      \* whether results/raw_data/benchmark_results.csv exists
    csv_rows,        \* its data rows
    pc,              \* main's position
    df,              \* the cleaned data frame
    stats_df,        \* calculate_statistics' result
    ranking_df,      \* create_ranking_analysis' result
    summary_report,  \* <<>> or <<the report>>
    plot_png,        \* performance_comparison.png: <<>> or <<its data>>
    stats_csv,       \* detailed_statistics.csv: <<>> or <<its rows>>
    report_txt,      \* performance_summary.txt: <<>> or <<the report>>
    written,         \* the artifacts written, in order
    stdout_report,   \* the report printed at the end: <<>> or <<the report>>
    exit_status      \* <<>> while the process runs, then <<its exit status>>

\* The two run_ga functions of implementations/python, run on one evolution.
VARIABLES
    population,      \* the population both functions hold
    evolution,       \* its number in the evolution: 1 is the initial one
    first_converged, \* number of the first population with an all-ones
                     \* individual, 0 while there is none
    run_ga,          \* run_ga of onemax_ga.py: position, generation, result
    run_ga_pypy      \* run_ga of onemax_ga_pypy.py: the same

\* count_executable_lines of count_loc.py on an F# file.
VARIABLES
    count_pc,              \* "idle", "reading" or "returned"
    in_multiline_comment,  \* the function's flag
    executable_lines,      \* the function's counter
    lines_read,            \* how many lines of the file were read
    last_line,             \* the line read last and whether it was counted
    comment                \* where the F# comments of the file really are

ga_vars == <<population, evolution, first_converged, run_ga, run_ga_pypy>>
loc_vars == <<count_pc, in_multiline_comment, executable_lines, lines_read,
              last_line, comment>>
main_vars == <<csv_exists, csv_rows, pc, df, stats_df, ranking_df, summary_report,
               plot_png, stats_csv, report_txt, written, stdout_report, exit_status>>
vars == <<main_vars, ga_vars, loc_vars>>

\* A function that is not called in the run.
NotCalled == [pc |-> "idle", generation |-> 0, built |-> 0, result |-> <<>>]
\* No genetic algorithm runs.
GaIdle ==
    /\ population = <<>>
    /\ evolution = 0
    /\ first_converged = 0
    /\ run_ga = NotCalled
    /\ run_ga_pypy = NotCalled
\* No file is counted.
LocIdle ==
    /\ count_pc = "idle"
    /\ in_multiline_comment = FALSE
    /\ executable_lines = 0
    /\ lines_read = 0
    /\ last_line = [line |-> <<>>, counted |-> FALSE]
    /\ comment = [inside |-> FALSE, was_inside |-> FALSE,
                  closed |-> FALSE, was_closed |-> FALSE]
\* analyze_results.py is not run.
MainIdle ==
    /\ csv_exists = FALSE
    /\ csv_rows = <<>>
    /\ pc = "idle"
    /\ df = <<>>
    /\ stats_df = <<>>
    /\ ranking_df = <<>>
    /\ summary_report = <<>>
    /\ plot_png = <<>>
    /\ stats_csv = <<>>
    /\ report_txt = <<>>
    /\ written = <<>>
    /\ stdout_report = <<>>
    /\ exit_status = <<>>

\* The status of a process whose main returns.
ExitSuccess == 0
\* (mutant) a fatal path that ends like a success.
ExitFailureAsSuccess == ExitSuccess
\* sys.exit(1), and the status of an uncaught exception.
ExitFailure == 1

Init ==
    /\ \/ csv_exists = FALSE /\ csv_rows = <<>>
       \/ /\ csv_exists = TRUE
          /\ \E n \in 0..NumLangs :
                \E cells \in [1..n -> [RunColumns -> CellTexts]] :
                    csv_rows = CsvFile(cells)
    /\ pc = "load"
    /\ df = <<>>
    /\ stats_df = <<>>
    /\ ranking_df = <<>>
    /\ summary_report = <<>>
    /\ plot_png = <<>>
    /\ stats_csv = <<>>
    /\ report_txt = <<>>
    /\ written = <<>>
    /\ stdout_report = <<>>
    /\ exit_status = <<>>
    /\ GaIdle
    /\ LocIdle

\* sys.exit(status): nothing else changes.
Exit(status) ==
    /\ pc' = "exit"
    /\ exit_status' = <<status>>

\* Lines 35-38: the results file is not there.
LoadMissingFile ==
    /\ pc = "load"
    /\ ~csv_exists
    /\ Exit(ExitFailure)
    /\ UNCHANGED <<ga_vars, loc_vars>>
    /\ UNCHANGED <<csv_exists, csv_rows, df, stats_df, ranking_df, summary_report,
                   plot_png, stats_csv, report_txt, written, stdout_report>>

\* Lines 41-53: every row dropped.
LoadNoValidData ==
    /\ pc = "load"
    /\ csv_exists
    /\ Len(DropAllMissing(ConvertRuns(csv_rows))) = 0
    /\ Exit(ExitFailure)
    /\ UNCHANGED <<ga_vars, loc_vars>>
    /\ UNCHANGED <<csv_exists, csv_rows, df, stats_df, ranking_df, summary_report,
                   plot_png, stats_csv, report_txt, written, stdout_report>>

\* Lines 41-55 and 264: the cleaned frame is returned to main.
LoadAndCleanData ==
    /\ pc = "load"
    /\ csv_exists
    /\ Len(DropAllMissing(ConvertRuns(csv_rows))) > 0
    /\ df' = DropAllMissing(ConvertRuns(csv_rows))
    /\ pc' = "calculate"
    /\ UNCHANGED <<ga_vars, loc_vars>>
    /\ UNCHANGED <<csv_exists, csv_rows, stats_df, ranking_df, summary_report,
                   plot_png, stats_csv, report_txt, written, stdout_report,
                   exit_status>>

\* Lines 269-273.
CalculateStatisticsStep ==
    /\ pc = "calculate"
    /\ stats_df' = CalculateStatistics(df)
    /\ IF Len(CalculateStatistics(df)) = 0
       THEN Exit(ExitFailure)
       ELSE pc' = "rank" /\ UNCHANGED exit_status
    /\ UNCHANGED <<ga_vars, loc_vars>>
    /\ UNCHANGED <<csv_exists, csv_rows, df, ranking_df, summary_report,
                   plot_png, stats_csv, report_txt, written, stdout_report>>

\* Line 276.
CreateRankingStep ==
    /\ pc = "rank"
    /\ \E p \in SortValues(stats_df) :
          ranking_df' = CreateRankingAnalysis(stats_df, p)
    /\ pc' = "plot"
    /\ UNCHANGED <<ga_vars, loc_vars>>
    /\ UNCHANGED <<csv_exists, csv_rows, df, stats_df, summary_report,
                   plot_png, stats_csv, report_txt, written, stdout_report,
                   exit_status>>

\* Line 280: create_performance_plot saves the image unless there is no
\* point to plot (lines 107-109, 153-154).
CreatePerformancePlot ==
    /\ pc = "plot"
    /\ IF Len(PlotData(df)) = 0
       THEN UNCHANGED <<plot_png, written>>
       ELSE /\ plot_png' = <<[points |-> PlotData(df), bars |-> PlotBars(stats_df)]>>
            /\ written' = Append(written, "performance_comparison.png")
    /\ pc' = "report"
    /\ UNCHANGED <<ga_vars, loc_vars>>
    /\ UNCHANGED <<csv_exists, csv_rows, df, stats_df, ranking_df, summary_report,
                   stats_csv, report_txt, stdout_report, exit_status>>

\* Line 284.
GenerateSummaryReportStep ==
    /\ pc = "report"
    /\ HasExtreme(stats_df)
    /\ summary_report' = <<GenerateSummaryReport(stats_df, ranking_df)>>
    /\ pc' = "save_stats"
    /\ UNCHANGED <<ga_vars, loc_vars>>
    /\ UNCHANGED <<csv_exists, csv_rows, df, stats_df, ranking_df,
                   plot_png, stats_csv, report_txt, written, stdout_report,
                   exit_status>>

\* Lines 214-215 with every CV NaN: the lookup raises and the process ends
\* with the traceback.
GenerateSummaryReportRaises ==
    /\ pc = "report"
    /\ ~HasExtreme(stats_df)
    /\ Exit(ExitFailure)
    /\ UNCHANGED <<ga_vars, loc_vars>>
    /\ UNCHANGED <<csv_exists, csv_rows, df, stats_df, ranking_df, summary_report,
                   plot_png, stats_csv, report_txt, written, stdout_report>>

\* Lines 287-289.
SaveStatistics ==
    /\ pc = "save_stats"
    /\ stats_csv' = <<ranking_df>>
    /\ written' = Append(written, "detailed_statistics.csv")
    /\ pc' = "save_report"
    /\ UNCHANGED <<ga_vars, loc_vars>>
    /\ UNCHANGED <<csv_exists, csv_rows, df, stats_df, ranking_df, summary_report,
                   plot_png, report_txt, stdout_report, exit_status>>

\* Lines 292-295.
SaveReport ==
    /\ pc = "save_report"
    /\ report_txt' = summary_report
    /\ written' = Append(written, "performance_summary.txt")
    /\ pc' = "print"
    /\ UNCHANGED <<ga_vars, loc_vars>>
    /\ UNCHANGED <<csv_exists, csv_rows, df, stats_df, ranking_df, summary_report,
                   plot_png, stats_csv, stdout_report, exit_status>>

\* Lines 298-304: the report on standard output, then main returns.
PrintSummary ==
    /\ pc = "print"
    /\ stdout_report' = summary_report
    /\ pc' = "done"
    /\ exit_status' = <<ExitSuccess>>
    /\ UNCHANGED <<ga_vars, loc_vars>>
    /\ UNCHANGED <<csv_exists, csv_rows, df, stats_df, ranking_df, summary_report,
                   plot_png, stats_csv, report_txt, written>>

Next ==
    \/ LoadMissingFile
    \/ LoadNoValidData
    \/ LoadAndCleanData
    \/ CalculateStatisticsStep
    \/ CreateRankingStep
    \/ CreatePerformancePlot
    \/ GenerateSummaryReportStep
    \/ GenerateSummaryReportRaises
    \/ SaveStatistics
    \/ SaveReport
    \/ PrintSummary

Spec == Init /\ [][Next]_vars

\* ======================================================== claims C1 - C10
\* What the claims say about the input, read off the file itself.
IsNumericCell(text) == text # "ERROR"
NumericCellCount(row) ==
    Cardinality({c \in RunColumns : IsNumericCell(row.runs[c])})
\* The value a numeric cell text stands for.
SampleOf(text) == IF text = "0" THEN Fin(0) ELSE Fin(Unit)
\* The numeric cells of a file row, as values, in column order.
NumericSamples(row) ==
    LET cells == SelectSeq(row.runs, IsNumericCell)
    IN  [i \in 1..Len(cells) |-> SampleOf(cells[i])]
CsvRowOf(language) ==
    CHOOSE r \in {csv_rows[i] : i \in 1..Len(csv_rows)} : r.language = language
\* The languages of the file rows with at least one numeric cell, in file order.
RetainedLanguages ==
    LET rows == SelectSeq(csv_rows, LAMBDA r : NumericCellCount(r) > 0)
    IN  [i \in 1..Len(rows) |-> rows[i].language]
LanguagesOf(frame) == [i \in 1..Len(frame) |-> frame[i].Language]
LanguageSet(frame) == {frame[i].Language : i \in 1..Len(frame)}
\* The fatal inputs: no file, or no row with a valid sample.
FatalInput == ~csv_exists \/ Len(RetainedLanguages) = 0
NothingWritten ==
    /\ written = <<>>
    /\ plot_png = <<>>
    /\ stats_csv = <<>>
    /\ report_txt = <<>>

\* C1: on a fatal input (file absent, or no row with a valid sample) the
\* process never leaves the loader except by exiting, it exits with a
\* non-zero status, and no artifact is written in any state of the run.
C1_FatalPathWritesNothing ==
    FatalInput =>
        /\ pc \in {"load", "exit"}
        /\ pc = "exit" => (exit_status # <<>> /\ exit_status # <<0>>)
        /\ NothingWritten
\* The run over a file whose rows are all errors has ended.
C1_Witness ==
    /\ csv_exists
    /\ Len(csv_rows) > 0
    /\ FatalInput
    /\ pc = "exit"

\* C2: the loader keeps exactly the rows with at least one numeric cell, in
\* file order, and every later output (statistics, ranking, saved table,
\* report, chart) lists exactly those languages.
C2_ExcludedIffAllMissing ==
    /\ (pc # "load" /\ ~FatalInput) =>
          [i \in 1..Len(df) |-> df[i].language] = RetainedLanguages
    /\ (pc \notin {"load", "calculate"} /\ ~FatalInput) =>
          LanguagesOf(stats_df) = RetainedLanguages
    /\ ranking_df # <<>> =>
          LanguageSet(ranking_df) = {RetainedLanguages[i] : i \in 1..Len(RetainedLanguages)}
    /\ stats_csv # <<>> =>
          LanguageSet(stats_csv[1]) = {RetainedLanguages[i] : i \in 1..Len(RetainedLanguages)}
    /\ plot_png # <<>> =>
          LanguagesOf(plot_png[1].bars) = RetainedLanguages
    /\ \A out \in {summary_report, report_txt, stdout_report} :
          out # <<>> =>
              /\ LanguageSet(out[1].ranking)
                    = {RetainedLanguages[i] : i \in 1..Len(RetainedLanguages)}
              /\ LanguageSet(out[1].details)
                    = {RetainedLanguages[i] : i \in 1..Len(RetainedLanguages)}
              /\ out[1].languages_tested = Len(RetainedLanguages)
\* A finished run over a file with an all-error row and a row that is kept.
C2_Witness ==
    /\ pc = "done"
    /\ \E i \in 1..Len(csv_rows) : NumericCellCount(csv_rows[i]) = 0
    /\ Len(stats_df) > 0
    /\ Len(stats_df) < Len(csv_rows)

StatsComputed == pc \notin {"load", "calculate"} /\ Len(stats_df) > 0
\* The samples of a language's file row are not all the same value.
SamplesDiffer(language) ==
    \E a, b \in RunColumns :
        /\ IsNumericCell(CsvRowOf(language).runs[a])
        /\ IsNumericCell(CsvRowOf(language).runs[b])
        /\ CsvRowOf(language).runs[a] # CsvRowOf(language).runs[b]

\* C4: a language with exactly one valid sample v has mean v, standard
\* deviation 0, coefficient of variation 0, CI lower = CI upper = v and
\* CI width 0.
C4_SingleSampleFallback ==
    StatsComputed =>
        \A i \in 1..Len(stats_df) :
            stats_df[i].ValidRuns = 1 =>
                LET v == NumericSamples(CsvRowOf(stats_df[i].Language))[1]
                IN  /\ stats_df[i].Mean = v
                    /\ stats_df[i].StdDev = Fin(0)
                    /\ stats_df[i].CV = Fin(0)
                    /\ stats_df[i].CILower = v
                    /\ stats_df[i].CIUpper = v
                    /\ stats_df[i].CIWidth = Fin(0)

\* The place of a language in the statistics (input) order.
InputIndex(language) ==
    CHOOSE i \in 1..Len(stats_df) : stats_df[i].Language = language

\* C5: in the ranked output, rank(A) < rank(B) exactly when mean(A) <
\* mean(B), or the means are equal and A came before B in the statistics.
C5_StableRanking ==
    ranking_df # <<>> =>
        \A a, b \in 1..Len(ranking_df) :
            ranking_df[a].Rank < ranking_df[b].Rank <=>
                \/ FLt(ranking_df[a].Mean, ranking_df[b].Mean)
                \/ /\ FEq(ranking_df[a].Mean, ranking_df[b].Mean)
                   /\ InputIndex(ranking_df[a].Language)
                        < InputIndex(ranking_df[b].Language)

\* The statistics fields of a ranking row.
StatsFields(row) ==
    [Language |-> row.Language, Mean |-> row.Mean, StdDev |-> row.StdDev,
     Median |-> row.Median, Min |-> row.Min, Max |-> row.Max,
     ValidRuns |-> row.ValidRuns, CV |-> row.CV, CILower |-> row.CILower,
     CIUpper |-> row.CIUpper, CIWidth |-> row.CIWidth]

\* C6: the ranking of N languages is a permutation of the statistics
\* records whose ranks are 1..N, each once, increasing along the rows.
C6_RanksArePermutation ==
    pc \notin {"load", "calculate", "rank"} /\ Len(stats_df) > 0 =>
        /\ Len(ranking_df) = Len(stats_df)
        /\ \A i \in 1..Len(ranking_df) : ranking_df[i].Rank = i
        /\ \A i, j \in 1..Len(ranking_df) :
              i < j => ranking_df[i].Rank < ranking_df[j].Rank
        /\ {ranking_df[i].Rank : i \in 1..Len(ranking_df)} = 1..Len(stats_df)
        /\ \A k \in 1..Len(stats_df) :
              Cardinality({i \in 1..Len(ranking_df) :
                              StatsFields(ranking_df[i]) = stats_df[k]}) = 1
\* A ranking of several languages, two of them with equal means.
C6_Witness ==
    /\ Len(ranking_df) > 1
    /\ \E i, j \in 1..Len(ranking_df) :
          i # j /\ FEq(ranking_df[i].Mean, ranking_df[j].Mean)

\* The smallest mean of the statistics.
MinMean == NpMin([i \in 1..Len(stats_df) |-> stats_df[i].Mean])

\* C7: every relative speed is the mean divided by the smallest mean; the
\* factor of the rank-1 language is exactly 1.0 and every factor is >= 1.0.
C7_RelativeSpeed ==
    ranking_df # <<>> =>
        /\ \A i \in 1..Len(ranking_df) :
              ranking_df[i].RelativeSpeed = FDiv(ranking_df[i].Mean, MinMean)
        /\ FEq(ranking_df[1].RelativeSpeed, FInt(1))
        /\ \A i \in 1..Len(ranking_df) :
              FLe(FInt(1), ranking_df[i].RelativeSpeed)

C9_CoefficientOfVariation ==
    StatsComputed =>
        \A i \in 1..Len(stats_df) :
            IF stats_df[i].Mean = Fin(0)
            THEN stats_df[i].CV = Fin(0)
            ELSE stats_df[i].CV
                    = FMul(FDiv(stats_df[i].StdDev, stats_df[i].Mean), FInt(100))

\* C10: in the report's ranking table every language with one valid sample
\* or a mean of exactly 0 carries the warning marker, never the marker of a
\* complete language.
C10_DegenerateFlagged ==
    summary_report # <<>> =>
        \A i \in 1..Len(ranking_df) :
            (ranking_df[i].ValidRuns = 1 \/ ranking_df[i].Mean = Fin(0)) =>
                /\ summary_report[1].ranking[i].Language = ranking_df[i].Language
                /\ summary_report[1].ranking[i].status.mark = "warning"

\* ====================================================== claims C11 - C13
\* The run over a file with at least one valid sample has ended.
RunEnded == pc \in {"done", "exit"} /\ ~FatalInput
\* The lines of the report's ranking table that name the language.
ReportLinesOf(language) ==
    IF summary_report = <<>> THEN {}
    ELSE {i \in 1..Len(summary_report[1].ranking) :
              summary_report[1].ranking[i].Language = language}

\* C11: every line of the report's ranking table carries the warning
\* marker showing exactly the language's numeric-cell count out of NumRuns
\* when that count is in 1..NumRuns-1, and the unflagged marker when it is
\* NumRuns; and when the run over a file with a valid sample has ended,
\* every language with 1..NumRuns-1 numeric cells is in the statistics, in
\* the ranking and on exactly one line of the report's ranking table.
C11_IncompleteFlaggedAndIncluded ==
    /\ summary_report # <<>> =>
          \A i \in 1..Len(summary_report[1].ranking) :
              LET line == summary_report[1].ranking[i]
                  n == NumericCellCount(CsvRowOf(line.Language))
              IN  /\ (line.status.mark = "warning") <=> (n \in 1..(NumRuns - 1))
                  /\ line.status.mark = "warning" =>
                        line.status.valid = n /\ line.status.target = NumRuns
                  /\ (line.status.mark = "check") <=> (n = NumRuns)
    /\ RunEnded =>
          \A r \in 1..Len(csv_rows) :
              NumericCellCount(csv_rows[r]) \in 1..(NumRuns - 1) =>
                  /\ csv_rows[r].language \in LanguageSet(stats_df)
                  /\ csv_rows[r].language \in LanguageSet(ranking_df)
                  /\ Cardinality(ReportLinesOf(csv_rows[r].language)) = 1

\* C12: when the run over a file with a valid sample has ended, its status
\* is zero, the three artifacts were written in the order image, statistics
\* table, text report, and the whole report is on standard output; no such
\* run ends with fewer than the three artifacts.
C12_SuccessWritesEverything ==
    RunEnded =>
        /\ pc = "done"
        /\ exit_status = <<ExitSuccess>>
        /\ written = <<"performance_comparison.png", "detailed_statistics.csv",
                       "performance_summary.txt">>
        /\ plot_png # <<>>
        /\ stats_csv # <<>>
        /\ report_txt # <<>>
        /\ summary_report # <<>>
        /\ report_txt = summary_report
        /\ stdout_report = summary_report

\* The statistics row of a language.
StatsRowOf(language) ==
    CHOOSE row \in {stats_df[i] : i \in 1..Len(stats_df)} : row.Language = language

\* C13: the report's most consistent language has a coefficient of
\* variation that is <= that of every language of the statistics, and its
\* least consistent language one that is >= that of every language, the
\* languages with a single valid sample included.
C13_ConsistencyExtremes ==
    summary_report # <<>> =>
        /\ summary_report[1].most_consistent \in LanguageSet(stats_df)
        /\ summary_report[1].least_consistent \in LanguageSet(stats_df)
        /\ \A j \in 1..Len(stats_df) :
              /\ FLe(StatsRowOf(summary_report[1].most_consistent).CV,
                     stats_df[j].CV)
              /\ FLe(stats_df[j].CV,
                     StatsRowOf(summary_report[1].least_consistent).CV)

\* ============================================ implementations/python
\* The GA parameters, scaled down.
POPULATION_SIZE == 2
CHROMOSOME_LENGTH == 2
MAX_GENERATIONS == 4
TOURNAMENT_SIZE == 2

\* ------------------------------------------------------- onemax_ga.py
\* Lines 21-27: every population of `size` individuals of `length` bits.
initialize_population(size, length) == [1..size -> [1..length -> {0, 1}]]

\* Lines 30-32: the count of 1s.
evaluate_fitness(individual) ==
    Cardinality({i \in DOMAIN individual : individual[i] = 1})

\* Lines 81 and 111.
Fitnesses(pop) == [i \in 1..Len(pop) |-> evaluate_fitness(pop[i])]
\* max(fitnesses)
MaxFitness(fitnesses) ==
    CHOOSE m \in {fitnesses[i] : i \in DOMAIN fitnesses} :
        \A i \in DOMAIN fitnesses : fitnesses[i] <= m

\* Lines 38-44: the first index of the tournament, replaced by each later
\* one of strictly greater fitness.
RECURSIVE BestIdx(_, _, _)
BestIdx(tournament_indices, fitnesses, best_idx) ==
    IF tournament_indices = <<>> THEN best_idx
    ELSE BestIdx(Tail(tournament_indices), fitnesses,
                 IF fitnesses[Head(tournament_indices)] > fitnesses[best_idx]
                 THEN Head(tournament_indices) ELSE best_idx)
\* Lines 35-46: random.choices draws the indices with replacement.
tournament_selection(pop, fitnesses, tournament_size) ==
    {pop[BestIdx(Tail(t), fitnesses, Head(t))] :
        t \in [1..tournament_size -> 1..Len(pop)]}

\* Lines 56-57: the head of one parent and the tail of the other.
CrossAt(head, tail, point) ==
    [i \in 1..Len(head) |-> IF i <= point THEN head[i] ELSE tail[i]]
\* Lines 49-59: copies of the parents, or a crossover at a point in
\* 1..len-1.
single_point_crossover(parent1, parent2) ==
    {<<parent1, parent2>>}
        \cup {<<CrossAt(parent1, parent2, point), CrossAt(parent2, parent1, point)>> :
                 point \in 1..(Len(parent1) - 1)}

\* Lines 62-68: every bit may be flipped.
mutate(individual) ==
    {[i \in DOMAIN individual |->
         IF i \in flips THEN 1 - individual[i] ELSE individual[i]] :
        flips \in SUBSET DOMAIN individual}

\* The pairs of offspring of two parents: crossover, then mutation of each.
Offspring(parents) ==
    UNION {UNION {mutate(children[1]) \X mutate(children[2]) :
                     children \in single_point_crossover(pair[1], pair[2])} :
              pair \in parents \X parents}

\* Lines 89-108: the loop over i in range(0, POPULATION_SIZE, 2); the
\* second offspring is dropped once the population is full.
RECURSIVE NewPopulations(_, _, _)
NewPopulations(offspring, new_population, i) ==
    IF i >= POPULATION_SIZE THEN {new_population}
    ELSE UNION {NewPopulations(offspring,
                    IF Len(new_population) + 1 < POPULATION_SIZE
                    THEN new_population \o <<pair[1], pair[2]>>
                    ELSE Append(new_population, pair[1]),
                    i + 2) :
                   pair \in offspring}
create_new_population(pop) ==
    NewPopulations(
        Offspring(tournament_selection(pop, Fitnesses(pop), TOURNAMENT_SIZE)),
        <<>>, 0)

\* (mutant) a loop that reports one generation less.
ReturnPreviousGeneration(st, pop) ==
    [st EXCEPT !.pc = "returned",
               !.result = <<st.generation - 1, MaxFitness(Fitnesses(pop))>>]
\* Lines 85-86: the early return.
ReturnGeneration(st, pop) ==
    [st EXCEPT !.pc = "returned",
               !.result = <<st.generation, MaxFitness(Fitnesses(pop))>>]
\* Lines 110-112: the loop is exhausted.
ReturnFinal(st, pop) ==
    [st EXCEPT !.pc = "returned",
               !.result = <<MAX_GENERATIONS, MaxFitness(Fitnesses(pop))>>]
\* Line 79: the loop has a next generation number.
InLoop(st) == st.generation <= MAX_GENERATIONS
\* Line 85.
Converged(pop) == MaxFitness(Fitnesses(pop)) = CHROMOSOME_LENGTH
\* Lines 79-86 and 110-112: the function returns on this population.
Returns(st, pop) == ~InLoop(st) \/ Converged(pop)

\* --------------------------------------------------- onemax_ga_pypy.py
\* Lines 18-24.
create_population == [1..POPULATION_SIZE -> [1..CHROMOSOME_LENGTH -> {0, 1}]]
\* Lines 26-28.
fitness(individual) == Cardinality({i \in DOMAIN individual : individual[i] = 1})
PypyFitnesses(pop) == [i \in 1..Len(pop) |-> fitness(pop[i])]

\* Line 33: max() answers the first index of greatest fitness.
PypyBestIdx(tournament_indices, fitnesses) ==
    LET k == CHOOSE k \in DOMAIN tournament_indices :
                 /\ \A j \in DOMAIN tournament_indices :
                       fitnesses[tournament_indices[j]]
                           <= fitnesses[tournament_indices[k]]
                 /\ \A j \in DOMAIN tournament_indices :
                       j < k => fitnesses[tournament_indices[j]]
                                    < fitnesses[tournament_indices[k]]
    IN  tournament_indices[k]
\* Lines 30-34: random.sample draws distinct indices.
pypy_tournament_selection(pop, fitnesses, tournament_size) ==
    {pop[PypyBestIdx(t, fitnesses)] :
        t \in {u \in [1..tournament_size -> 1..Len(pop)] :
                  \A a, b \in 1..tournament_size : a # b => u[a] # u[b]}}

\* Lines 36-44.
crossover(parent1, parent2) ==
    {<<parent1, parent2>>}
        \cup {<<CrossAt(parent1, parent2, point), CrossAt(parent2, parent1, point)>> :
                 point \in 1..(CHROMOSOME_LENGTH - 1)}
\* Lines 46-52.
pypy_mutate(individual) ==
    {[i \in DOMAIN individual |->
         IF i \in flips THEN 1 - individual[i] ELSE individual[i]] :
        flips \in SUBSET DOMAIN individual}
PypyOffspring(parents) ==
    UNION {UNION {pypy_mutate(children[1]) \X pypy_mutate(children[2]) :
                     children \in crossover(pair[1], pair[2])} :
              pair \in parents \X parents}

\* Lines 56-69: pairs are added while the population is short, and the
\* first POPULATION_SIZE individuals are returned.
RECURSIVE NewGenerations(_, _)
NewGenerations(offspring, new_population) ==
    IF Len(new_population) >= POPULATION_SIZE
    THEN {SubSeq(new_population, 1, POPULATION_SIZE)}
    ELSE UNION {NewGenerations(offspring, new_population \o <<pair[1], pair[2]>>) :
                   pair \in offspring}
create_new_generation(pop) ==
    NewGenerations(
        PypyOffspring(pypy_tournament_selection(pop, PypyFitnesses(pop),
                                                TOURNAMENT_SIZE)),
        <<>>)

\* Lines 81-82.
PypyReturnGeneration(st, pop) ==
    [st EXCEPT !.pc = "returned",
               !.result = <<st.generation, MaxFitness(PypyFitnesses(pop))>>]
\* Lines 87-90.
PypyReturnFinal(st, pop) ==
    [st EXCEPT !.pc = "returned",
               !.result = <<MAX_GENERATIONS, MaxFitness(PypyFitnesses(pop))>>]
\* Line 76.
PypyInLoop(st) == st.generation < MAX_GENERATIONS
\* Line 81.
PypyConverged(pop) == MaxFitness(PypyFitnesses(pop)) >= CHROMOSOME_LENGTH
PypyReturns(st, pop) == ~PypyInLoop(st) \/ PypyConverged(pop)

\* --------------------------------------------------- the two run_ga
HasAllOnes(pop) ==
    \E i \in 1..Len(pop) : \A b \in DOMAIN pop[i] : pop[i][b] = 1

\* onemax_ga.py lines 77-79: the initial population, generation 1.
\* onemax_ga_pypy.py lines 73-74: the initial population, generation 0.
StartEvolution(pop) ==
    /\ population = pop
    /\ evolution = 1
    /\ first_converged = IF HasAllOnes(pop) THEN 1 ELSE 0
\* run_ga of onemax_ga.py alone.
InitRunGa ==
    /\ MainIdle
    /\ LocIdle
    /\ \E pop \in initialize_population(POPULATION_SIZE, CHROMOSOME_LENGTH) :
          StartEvolution(pop)
    /\ run_ga = [pc |-> "loop", generation |-> 1, built |-> 0, result |-> <<>>]
    /\ run_ga_pypy = NotCalled
\* Both functions on the same initial population.
InitBothGa ==
    /\ MainIdle
    /\ LocIdle
    /\ \E pop \in initialize_population(POPULATION_SIZE, CHROMOSOME_LENGTH)
                     \cap create_population :
          StartEvolution(pop)
    /\ run_ga = [pc |-> "loop", generation |-> 1, built |-> 0, result |-> <<>>]
    /\ run_ga_pypy = [pc |-> "loop", generation |-> 0, built |-> 0, result |-> <<>>]

\* onemax_ga.py lines 85-86 and 110-112: run_ga returns.
RunGaReturn ==
    /\ run_ga.pc = "loop"
    /\ Returns(run_ga, population)
    /\ run_ga' = IF InLoop(run_ga) THEN ReturnGeneration(run_ga, population)
                 ELSE ReturnFinal(run_ga, population)
    /\ UNCHANGED <<population, evolution, first_converged, run_ga_pypy>>
    /\ UNCHANGED <<main_vars, loc_vars>>

\* onemax_ga_pypy.py lines 81-82 and 87-90: run_ga returns.
PypyRunGaReturn ==
    /\ run_ga_pypy.pc = "loop"
    /\ PypyReturns(run_ga_pypy, population)
    /\ run_ga_pypy' = IF PypyInLoop(run_ga_pypy)
                      THEN PypyReturnGeneration(run_ga_pypy, population)
                      ELSE PypyReturnFinal(run_ga_pypy, population)
    /\ UNCHANGED <<population, evolution, first_converged, run_ga>>
    /\ UNCHANGED <<main_vars, loc_vars>>

\* The evolution goes on with the population new_population.
Evolve(new_population) ==
    /\ population' = new_population
    /\ evolution' = evolution + 1
    /\ first_converged' = IF first_converged = 0 /\ HasAllOnes(new_population)
                          THEN evolution + 1 ELSE first_converged

\* onemax_ga.py lines 88-108 and the next turn of the loop at line 79.
RunGaNextGeneration ==
    /\ run_ga.pc = "loop"
    /\ ~Returns(run_ga, population)
    /\ run_ga_pypy.pc # "loop"
    /\ \E new_population \in create_new_population(population) :
          Evolve(new_population)
    /\ run_ga' = [run_ga EXCEPT !.generation = @ + 1, !.built = @ + 1]
    /\ UNCHANGED run_ga_pypy
    /\ UNCHANGED <<main_vars, loc_vars>>

\* The same, with onemax_ga_pypy.py lines 84-85 on the same populations.
BothNextGeneration ==
    /\ run_ga.pc = "loop"
    /\ ~Returns(run_ga, population)
    /\ run_ga_pypy.pc = "loop"
    /\ ~PypyReturns(run_ga_pypy, population)
    /\ \E new_population \in create_new_population(population)
                                \cap create_new_generation(population) :
          Evolve(new_population)
    /\ run_ga' = [run_ga EXCEPT !.generation = @ + 1, !.built = @ + 1]
    /\ run_ga_pypy' = [run_ga_pypy EXCEPT !.generation = @ + 1, !.built = @ + 1]
    /\ UNCHANGED <<main_vars, loc_vars>>

NextRunGa ==
    \/ RunGaReturn
    \/ RunGaNextGeneration

SpecRunGa == InitRunGa /\ [][NextRunGa]_vars

NextBothGa ==
    \/ RunGaReturn
    \/ PypyRunGaReturn
    \/ BothNextGeneration

SpecBothGa == InitBothGa /\ [][NextBothGa]_vars

\* ====================================================== claims C14 - C15
\* The best fitness of a population, counted bit by bit.
RECURSIVE OnesOf(_)
OnesOf(bits) == IF bits = <<>> THEN 0 ELSE Head(bits) + OnesOf(Tail(bits))
BestFitnessOf(pop) ==
    CHOOSE f \in {OnesOf(pop[i]) : i \in 1..Len(pop)} :
        \A i \in 1..Len(pop) : OnesOf(pop[i]) <= f
\* The result (g, f) is the one the claims describe for the evolution: the
\* number of the first converged population among the MAX_GENERATIONS ones
\* checked, with the full fitness, or else the cap with the best fitness of
\* the final population.
ResultAsClaimed(result) ==
    /\ Len(result) = 2
    /\ IF first_converged \in 1..MAX_GENERATIONS
       THEN result = <<first_converged, CHROMOSOME_LENGTH>>
       ELSE /\ evolution = MAX_GENERATIONS + 1
            /\ result = <<MAX_GENERATIONS, BestFitnessOf(population)>>
\* run_ga has a next step: a return, or a new population to build.
RunGaCanStep ==
    \/ Returns(run_ga, population)
    \/ create_new_population(population) # {}
C14_Safe ==
    /\ run_ga.built <= MAX_GENERATIONS
    /\ evolution = run_ga.built + 1
    /\ run_ga.pc \in {"loop", "returned"}
    /\ run_ga.pc = "loop" =>
          /\ run_ga.generation = run_ga.built + 1
          /\ RunGaCanStep
    /\ run_ga.pc = "returned" =>
          /\ ResultAsClaimed(run_ga.result)
          /\ run_ga.result[1] \in 1..MAX_GENERATIONS
          /\ run_ga.result[1] < MAX_GENERATIONS =>
                run_ga.result[2] = CHROMOSOME_LENGTH

\* A turn of the loop returns, or builds one more population and moves to
\* the next generation number.
C14_Progress ==
    run_ga.pc = "loop" =>
        \/ run_ga'.pc = "returned" /\ run_ga'.built = run_ga.built
        \/ /\ run_ga'.pc = "loop"
           /\ run_ga'.generation = run_ga.generation + 1
           /\ run_ga'.built = run_ga.built + 1

\* C14: run_ga of onemax_ga.py terminates after building at most
\* MAX_GENERATIONS new populations, whatever the random choices: while it
\* has not returned it can always take a turn, every turn returns or
\* builds one more population, and never more than MAX_GENERATIONS are
\* built. Its result (g, f) has g in 1..MAX_GENERATIONS, g the number of
\* the first generation whose population has an all-ones individual and
\* f = CHROMOSOME_LENGTH, or g = MAX_GENERATIONS and f the best fitness of
\* the final population when no checked generation converged;
\* g < MAX_GENERATIONS implies f = CHROMOSOME_LENGTH.
C14_RunGaTerminates == []C14_Safe /\ [][C14_Progress]_vars
\* run_ga returned at the cap, every population built, none converged.
C14_Witness ==
    /\ run_ga.pc = "returned"
    /\ run_ga.built = MAX_GENERATIONS
    /\ first_converged = 0
    /\ run_ga.result = <<MAX_GENERATIONS, BestFitnessOf(population)>>
    /\ run_ga.result[2] < CHROMOSOME_LENGTH

\* C15: on the same evolution the two run_ga functions return the same
\* (generation count, best fitness): that of the first converged population
\* among those checked, or MAX_GENERATIONS with the best fitness of the
\* final population; every population either of them evaluates has
\* exactly POPULATION_SIZE individuals.
C15_SameResult ==
    /\ Len(population) = POPULATION_SIZE
    /\ (run_ga.pc = "returned" /\ run_ga_pypy.pc = "returned") =>
          /\ run_ga.result = run_ga_pypy.result
          /\ first_converged \notin 1..MAX_GENERATIONS =>
                /\ run_ga.result = <<MAX_GENERATIONS, BestFitnessOf(population)>>
                /\ run_ga_pypy.result = <<MAX_GENERATIONS, BestFitnessOf(population)>>

\* ========================================================= count_loc.py
\* count_executable_lines(file_path, 'fsharp'). A line is a sequence of
\* pieces of text: blank space, code, and the comment marks.
MaxLineLen == 2
MaxLines == 3
Pieces == {" ", "x", "//", "(*", "*)", "*/"}
FileLines == UNION {[1..n -> Pieces] : n \in 0..MaxLineLen}

\* str.strip(): the blank space at both ends is dropped.
RECURSIVE LStrip(_)
LStrip(text) ==
    IF text # <<>> /\ Head(text) = " " THEN LStrip(Tail(text)) ELSE text
RECURSIVE RStrip(_)
RStrip(text) ==
    IF text # <<>> /\ text[Len(text)] = " "
    THEN RStrip(SubSeq(text, 1, Len(text) - 1)) ELSE text
Strip(text) == RStrip(LStrip(text))
\* mark in stripped
Contains(text, mark) == \E i \in 1..Len(text) : text[i] = mark
\* stripped.startswith(mark)
StartsWith(text, mark) == text # <<>> /\ Head(text) = mark
\* stripped.split(mark)[0].strip()
BeforeMark(text, mark) ==
    LET first == CHOOSE i \in 1..Len(text) :
                     text[i] = mark /\ \A j \in 1..(i - 1) : text[j] # mark
    IN  Strip(SubSeq(text, 1, first - 1))

\* The flag a reader of F# block comments keeps: set by a line that opens
\* a comment without closing it, cleared by the line with the closing
\* mark; line comments and one-line block comments leave it alone.
InsideAfter(inside, stripped) ==
    IF stripped = <<>> \/ StartsWith(stripped, "//") THEN inside
    ELSE IF inside /\ ~Contains(stripped, "*)") THEN inside
    ELSE IF Contains(stripped, "(*") /\ Contains(stripped, "*)") THEN inside
    ELSE IF Contains(stripped, "(*") THEN TRUE
    ELSE IF Contains(stripped, "*)") THEN FALSE
    ELSE inside

\* Lines 35-37: the function starts on a file of at most MaxLines lines.
InitCountLoc ==
    /\ MainIdle
    /\ GaIdle
    /\ count_pc = "reading"
    /\ in_multiline_comment = FALSE
    /\ executable_lines = 0
    /\ lines_read = 0
    /\ last_line = [line |-> <<>>, counted |-> FALSE]
    /\ comment = [inside |-> FALSE, was_inside |-> FALSE,
                  closed |-> FALSE, was_closed |-> FALSE]

\* Line 39: the loop takes the next line of the file; `counted` says
\* whether this turn adds one to executable_lines.
ReadLine(line, counted) ==
    /\ lines_read' = lines_read + 1
    /\ last_line' = [line |-> line, counted |-> counted]
    /\ executable_lines' = IF counted THEN executable_lines + 1
                           ELSE executable_lines
    /\ comment' = [inside |-> InsideAfter(comment.inside, Strip(line)),
                   was_inside |-> comment.inside,
                   closed |-> comment.closed
                              \/ (comment.inside
                                  /\ ~InsideAfter(comment.inside, Strip(line))),
                   was_closed |-> comment.closed]
    /\ UNCHANGED count_pc
    /\ UNCHANGED <<main_vars, ga_vars>>
MoreLines == count_pc = "reading" /\ lines_read < MaxLines

\* Lines 40-44: a blank line.
SkipBlankLine ==
    /\ MoreLines
    /\ \E line \in FileLines :
          /\ Strip(line) = <<>>
          /\ ReadLine(line, FALSE)
    /\ UNCHANGED in_multiline_comment

\* Lines 109-110: a line comment, or a line taken to be inside a block
\* comment.
SkipCommentLine ==
    /\ MoreLines
    /\ \E line \in FileLines :
          LET stripped == Strip(line)
          IN  /\ stripped # <<>>
              /\ \/ StartsWith(stripped, "//")
                 \/ (in_multiline_comment /\ ~Contains(stripped, "*/"))
              /\ ReadLine(line, FALSE)
    /\ UNCHANGED in_multiline_comment

\* The line reaches the elif chain of lines 111-125.
PastLine109(stripped) ==
    /\ stripped # <<>>
    /\ ~StartsWith(stripped, "//")
    /\ ~(in_multiline_comment /\ ~Contains(stripped, "*/"))

\* Lines 111-116: a block comment opened and closed on the line.
SingleLineComment ==
    /\ MoreLines
    /\ \E line \in FileLines :
          LET stripped == Strip(line)
          IN  /\ PastLine109(stripped)
              /\ Contains(stripped, "(*") /\ Contains(stripped, "*)")
              /\ ReadLine(line, BeforeMark(stripped, "(*") # <<>>)
    /\ UNCHANGED in_multiline_comment

\* Lines 117-122: a block comment opened on the line.
OpenComment ==
    /\ MoreLines
    /\ \E line \in FileLines :
          LET stripped == Strip(line)
          IN  /\ PastLine109(stripped)
              /\ Contains(stripped, "(*") /\ ~Contains(stripped, "*)")
              /\ ReadLine(line, BeforeMark(stripped, "(*") # <<>>)
    /\ in_multiline_comment' = TRUE

\* Lines 123-125: the closing mark of a block comment.
CloseComment ==
    /\ MoreLines
    /\ \E line \in FileLines :
          LET stripped == Strip(line)
          IN  /\ PastLine109(stripped)
              /\ ~Contains(stripped, "(*") /\ Contains(stripped, "*)")
              /\ ReadLine(line, FALSE)
    /\ in_multiline_comment' = FALSE

\* Lines 155-156: any other line is executable.
CountExecutableLine ==
    /\ MoreLines
    /\ \E line \in FileLines :
          LET stripped == Strip(line)
          IN  /\ PastLine109(stripped)
              /\ ~Contains(stripped, "(*") /\ ~Contains(stripped, "*)")
              /\ ReadLine(line, TRUE)
    /\ UNCHANGED in_multiline_comment

\* Line 158: the file is read to its end.
ReturnExecutableLines ==
    /\ count_pc = "reading"
    /\ count_pc' = "returned"
    /\ UNCHANGED <<in_multiline_comment, executable_lines, lines_read,
                   last_line, comment>>
    /\ UNCHANGED <<main_vars, ga_vars>>

NextCountLoc ==
    \/ SkipBlankLine
    \/ SkipCommentLine
    \/ SingleLineComment
    \/ OpenComment
    \/ CloseComment
    \/ CountExecutableLine
    \/ ReturnExecutableLines

SpecCountLoc == InitCountLoc /\ [][NextCountLoc]_vars

\* ============================================================ claim C16
\* The line read last has no comment mark of F# on it and is not blank.
PlainCodeLine ==
    LET stripped == Strip(last_line.line)
    IN  /\ stripped # <<>>
        /\ ~StartsWith(stripped, "//")
        /\ ~Contains(stripped, "(*")
        /\ ~Contains(stripped, "*)")

\* C16: for 'fsharp', after any sequence of lines: the flag is cleared when
\* the line with the closing mark of a block comment is read; a line of
\* code read after a block comment was closed, and outside any comment, is
\* counted; a line that lies strictly inside a block comment is not.
C16_FsharpCommentLines ==
    lines_read > 0 =>
        /\ (comment.was_inside /\ ~comment.inside) => ~in_multiline_comment
        /\ (comment.was_closed /\ ~comment.was_inside /\ PlainCodeLine) =>
              last_line.counted
        /\ (comment.was_inside /\ comment.inside) => ~last_line.counted

====
